---------------------------- MODULE Spec2Model ----------------------------
(***************************************************************************)
(* Model of two utilities of FeederUtils:                                  *)
(*   - the label-sheet paginator (label_maker/generate_labels.py, and the  *)
(*     older generate_labels.py, whose pagination code is the same);       *)
(*   - the KiCad to OpenPnP converter (kicad_tools/kicad-to-openpnp-       *)
(*     standalone.py and the older kicad-to-openpnp-standalone.py).        *)
(* Strings the code inspects (upper(), 'x' in s, format) are modelled as   *)
(* tuples of one-character strings.                                        *)
(***************************************************************************)
EXTENDS Integers, Sequences, FiniteSets, TLC

\* ---------------------------------------------------------------- bounds
MaxRows == 2
MaxColumns == 3
MaxStart == 7
MaxLabels == 4
MaxFootprints == 2
MaxPads == 3
MaxFeeders == 2

VARIABLES
    \* ---- label paginator
    lpc,          \* position in generate(): "start", "pages", "in_page", "done"
    rows,         \* config.data['rows']
    columns,      \* config.data['columns']
    startIndex,   \* generate(startIndex, ...)
    fileLabels,   \* the .png files os.listdir finds in labels/, in listing order
    labelsList,   \* generate's working list
    totalPages,   \* generate's totalPages
    page,         \* loop variable of "for page in range(totalPages)"
    labelList,    \* create_page's argument
    pos,          \* number of entries of labelList the for loop has consumed
    rowIndex,     \* create_page's rowIndex  (index inside a grid row)
    columnIndex,  \* create_page's columnIndex (index of the grid row)
    labelIndex,   \* create_page's labelIndex
    pasted,       \* every img.paste / labelMap.write of a label, in order
    savedPages,   \* every img.save, in order: the pageNumber and its entry count
    \* ---- KiCad converter
    cpc,          \* position in the script: "start", "identified", "packages", "parts",
                  \* "done", or "raised" (ended by an exception)
    version,      \* which of the two converter scripts runs
    args,         \* the parsed command line
    parts_json,   \* the content of parts.json
    board,        \* board.GetFootprints()
    packages,     \* result of identity_used_packages_and_parts
    parts,        \* result of identity_used_packages_and_parts
    placements,   \* result of identity_used_packages_and_parts
    packages_xml, \* packages.xml on disk: id -> element
    parts_xml,    \* parts.xml on disk: id -> element
    board_xml,    \* the board.xml written
    fsLog,        \* the file copies and writes made, in order
    \* ---- feeder label scan (scan-feeders-for-part-labels.py)
    spc,          \* position in the script: "start", "label", "update", "done", or
                  \* "raised" (ended by an exception)
    machine,      \* machine.isEnabled() and whether the default head has a camera
    create_missing_parts, \* the setting of that name (the script may switch it off)
    cfgParts,     \* Configuration.get().getParts(), in order
    cfgPackages,  \* Configuration.get().getPackages(), in order
    feeders,      \* machine.getFeeders(), in order
    bank,         \* the feeders of the bank the slots share (feeder.getBank().getFeeders())
    fi,           \* index of the feeder the loop is at
    detected_part, \* the loop's detected_part
    scanLog       \* per feeder updated: its index, the part detected and the size the
                  \* bank had when it was searched

labelVars == <<lpc, rows, columns, startIndex, fileLabels, labelsList, totalPages,
               page, labelList, pos, rowIndex, columnIndex, labelIndex, pasted,
               savedPages>>

convVars == <<cpc, version, args, parts_json, board, packages, parts, placements,
              packages_xml, parts_xml, board_xml, fsLog>>

scanVars == <<spc, machine, create_missing_parts, cfgParts, cfgPackages, feeders, bank,
              fi, detected_part, scanLog>>

vars == <<labelVars, convVars, scanVars>>

\* ------------------------------------------------------ generic helpers
\* Python's list[0:n]
Take(s, n) == SubSeq(s, 1, IF n < Len(s) THEN n ELSE Len(s))

\* ------------------------------------------------------ label paginator
\* the ' ' entries generate() puts in front of the labels
Blank == " "

\* the name of the i-th label image file
LabelFile(i) == "label" \o ToString(i)

\* [' '] * int(startIndex)
offsetLabels(n) == [i \in 1..n |-> Blank]

\* math.ceil(n / d) for n >= 0, d >= 1
CeilDivBug(n, d) == n \div d
CeilDiv(n, d) == IF n % d = 0 THEN n \div d ELSE (n \div d) + 1

\* del labelsList[0:n]
DelFrontBug(s, n) == IF Len(s) = 0 THEN s ELSE SubSeq(s, n, Len(s))
DelFront(s, n) == IF n >= Len(s) THEN <<>> ELSE SubSeq(s, n + 1, Len(s))

\* create_page: "if rowIndex > columns - 1", tested after rowIndex += 1
RowFullBug(r, cols) == r > cols
RowFull(r, cols) == r > cols - 1

labelsPerSheet == rows * columns

\* the converter does not run
ConvOff ==
    /\ cpc = "off"
    /\ version = "tools"
    /\ args = <<>>
    /\ parts_json = <<>>
    /\ board = <<>>
    /\ packages = <<>>
    /\ parts = <<>>
    /\ placements = <<>>
    /\ packages_xml = <<>>
    /\ parts_xml = <<>>
    /\ board_xml = <<>>
    /\ fsLog = <<>>

\* the feeder scan is not running
ScanOff ==
    /\ spc = "off"
    /\ machine = [enabled |-> FALSE, camera |-> FALSE]
    /\ create_missing_parts = FALSE
    /\ cfgParts = <<>>
    /\ cfgPackages = <<>>
    /\ feeders = <<>>
    /\ bank = <<>>
    /\ fi = 0
    /\ detected_part = "<None>"
    /\ scanLog = <<>>

\* the paginator does not run
LabelsOff ==
    /\ lpc = "off"
    /\ rows = 1
    /\ columns = 1
    /\ startIndex = 0
    /\ fileLabels = <<>>
    /\ labelsList = <<>>
    /\ totalPages = 0
    /\ page = 0
    /\ labelList = <<>>
    /\ pos = 0
    /\ rowIndex = 0
    /\ columnIndex = 0
    /\ labelIndex = 0
    /\ pasted = <<>>
    /\ savedPages = <<>>

InitLabels ==
    /\ lpc = "start"
    /\ rows \in 1..MaxRows
    /\ columns \in 1..MaxColumns
    /\ startIndex \in 0..MaxStart
    /\ \E n \in 0..MaxLabels : fileLabels = [i \in 1..n |-> LabelFile(i)]
    /\ labelsList = <<>>
    /\ totalPages = 0
    /\ page = 0
    /\ labelList = <<>>
    /\ pos = 0
    /\ rowIndex = 0
    /\ columnIndex = 0
    /\ labelIndex = 0
    /\ pasted = <<>>
    /\ savedPages = <<>>

\* generate(): the labels list is read, the offset entries are put in front
\* and the number of pages is computed
Generate ==
    /\ lpc = "start"
    /\ labelsList' = offsetLabels(startIndex) \o fileLabels
    /\ totalPages' = CeilDiv(Len(labelsList'), labelsPerSheet)
    /\ page' = 0
    /\ lpc' = "pages"
    /\ UNCHANGED <<rows, columns, startIndex, fileLabels, labelList, pos, rowIndex,
                   columnIndex, labelIndex, pasted, savedPages>>
    /\ UNCHANGED <<convVars, scanVars>>

\* "for page in range(totalPages)": the call create_page(page, labelsList[0:labelsPerSheet])
\* up to the start of its for loop
CreatePageBegin ==
    /\ lpc = "pages"
    /\ page < totalPages
    /\ labelList' = Take(labelsList, labelsPerSheet)
    /\ pos' = 0
    /\ labelIndex' = 0
    /\ rowIndex' = 0
    /\ columnIndex' = 0
    /\ lpc' = "in_page"
    /\ UNCHANGED <<rows, columns, startIndex, fileLabels, labelsList, totalPages,
                   page, pasted, savedPages>>
    /\ UNCHANGED <<convVars, scanVars>>

\* one pass of "for label in labelList" in create_page
PlaceLabel ==
    /\ lpc = "in_page"
    /\ pos < Len(labelList)
    /\ LET label == labelList[pos + 1]
       IN  pasted' = IF label # Blank
                     THEN Append(pasted, [page |-> page, label |-> label,
                                          rowIndex |-> rowIndex,
                                          columnIndex |-> columnIndex])
                     ELSE pasted
    /\ labelIndex' = labelIndex + 1
    /\ pos' = pos + 1
    /\ IF RowFull(rowIndex + 1, columns)
       THEN rowIndex' = 0 /\ columnIndex' = columnIndex + 1
       ELSE rowIndex' = rowIndex + 1 /\ columnIndex' = columnIndex
    /\ UNCHANGED <<lpc, rows, columns, startIndex, fileLabels, labelsList, totalPages,
                   page, labelList, savedPages>>
    /\ UNCHANGED <<convVars, scanVars>>

\* the end of create_page (img.save) and "del labelsList[0:labelsPerSheet]"
CreatePageEnd ==
    /\ lpc = "in_page"
    /\ pos = Len(labelList)
    /\ savedPages' = Append(savedPages, [page |-> page, entries |-> Len(labelList)])
    /\ labelsList' = DelFront(labelsList, labelsPerSheet)
    /\ page' = page + 1
    /\ lpc' = "pages"
    /\ UNCHANGED <<rows, columns, startIndex, fileLabels, totalPages, labelList, pos,
                   rowIndex, columnIndex, labelIndex, pasted>>
    /\ UNCHANGED <<convVars, scanVars>>

\* range(totalPages) is exhausted
GenerateEnd ==
    /\ lpc = "pages"
    /\ page >= totalPages
    /\ lpc' = "done"
    /\ UNCHANGED <<rows, columns, startIndex, fileLabels, labelsList, totalPages, page,
                   labelList, pos, rowIndex, columnIndex, labelIndex, pasted, savedPages>>
    /\ UNCHANGED <<convVars, scanVars>>

NextLabels ==
    \/ Generate
    \/ CreatePageBegin
    \/ PlaceLabel
    \/ CreatePageEnd
    \/ GenerateEnd

\* the paginator run alone
InitPaginator == InitLabels /\ ConvOff /\ ScanOff

SpecLabels == InitPaginator /\ [][NextLabels]_vars

\* the script runs to its end: every enabled step is eventually taken
SpecLabelsFair == SpecLabels /\ WF_vars(NextLabels)

\* ------------------------------------------------- strings and Python values
\* str.upper(), letter by letter
LowerCase == <<"a", "b", "c", "d", "e", "f", "g", "h", "i", "j", "k", "l", "m", "n", "o", "p", "q", "r", "s", "t", "u", "v", "w", "x", "y", "z">>
UpperCase == <<"A", "B", "C", "D", "E", "F", "G", "H", "I", "J", "K", "L", "M", "N", "O", "P", "Q", "R", "S", "T", "U", "V", "W", "X", "Y", "Z">>

UpperOf == [c \in { LowerCase[i] : i \in 1..Len(LowerCase) } |->
               UpperCase[CHOOSE i \in 1..Len(LowerCase) : LowerCase[i] = c]]

UpperChar(c) == IF c \in DOMAIN UpperOf THEN UpperOf[c] ELSE c

upper(s) == [i \in 1..Len(s) |-> UpperChar(s[i])]

\* Python's "sub in s" for strings
Contains(sub, s) ==
    \E i \in 0..(Len(s) - Len(sub)) : SubSeq(s, i + 1, i + Len(sub)) = sub

\* '{}_{}'.format(a, b)
Format2(a, b) == a \o <<"_">> \o b

\* str(n) for an integer 0 <= n < 100
IntStr(n) == IF n < 10 THEN <<ToString(n)>> ELSE <<ToString(n \div 10), ToString(n % 10)>>

\* str(x) of a float holding a whole number of millimetres
FloatStr(x) == ToString(x) \o ".0"

\* abs(x)
Abs(x) == IF x < 0 THEN 0 - x ELSE x

\* Python values an option or a JSON field can hold beside a string
PyNone == "<None>"
PyFalse == "<False>"
PyTrue == "<True>"

\* the truth value Python gives an option value v in "if v" / "not v"
Truthy(v) == v \notin {PyNone, PyFalse, ""}

\* the truth value of a JSON number field, held as the text of the number
NumTruthy(v) == v \notin {PyNone, "0"}

\* dict[k] = v
Put(d, k, v) == [x \in (DOMAIN d) \cup {k} |-> IF x = k THEN v ELSE d[x]]

\* the words the converter looks for
sFiducial == <<"F", "i", "d", "u", "c", "i", "a", "l">>
sFIDUCIAL == <<"F", "I", "D", "U", "C", "I", "A", "L">>
sTESTPOINT == <<"T", "E", "S", "T", "P", "O", "I", "N", "T">>
sTilde == <<"~">>

\* pcbnew: internal units per millimetre (KiCad 6 and later: nanometres)
IU_PER_MM == 1000000

\* to_millimeters / pcbnew.Iu2Millimeter, for positions that are whole millimetres
to_millimeters(value) == value \div IU_PER_MM

\* a length of n millimetres in internal units
MM(n) == n * IU_PER_MM

\* pcbnew RotatePoint: the point p turned about centre c by angle degrees (a multiple
\* of 90)
RotatePoint(p, c, angle) ==
    LET a == ((angle % 360) + 360) % 360
        x == p[1] - c[1]
        y == p[2] - c[2]
        r == CASE a = 0 -> <<x, y>>
               [] a = 90 -> <<y, 0 - x>>
               [] a = 180 -> <<0 - x, 0 - y>>
               [] OTHER -> <<0 - y, x>>
    IN  <<r[1] + c[1], r[2] + c[2]>>

\* ------------------------------------------------------ converter: the inputs
\* the two converter scripts: kicad_tools/kicad-to-openpnp-standalone.py ("tools")
\* and the older kicad-to-openpnp-standalone.py ("old")
Versions == {"tools", "old"}

\* footprint library names and values used on the boards
nR0402 == <<"R", "_", "0", "4", "0", "2", "_", "1", "0", "0", "5", "M", "e", "t", "r", "i", "c">>
nDFN == <<"D", "F", "N", "-", "8", "_", "2", "x", "2", "m", "m">>
nFid == <<"F", "i", "d", "u", "c", "i", "a", "l", "_", "1", "m", "m", "_", "M", "a", "s", "k", "2", "m", "m">>
nTP == <<"T", "e", "s", "t", "P", "o", "i", "n", "t", "_", "P", "a", "d", "_", "D", "1", ".", "0", "m", "m">>
nTO252 == <<"T", "O", "-", "2", "5", "2", "-", "2">>

Pad(name, attr, x, y, shape, copper) ==
    [name |-> name, attr |-> attr, pos |-> <<MM(x), MM(y)>>, size |-> <<MM(1), MM(2)>>,
     shape |-> shape, copper |-> copper, radius |-> MM(1)]

\* the footprints a board is made of: library name, value, layer, whether KiCad lists
\* the footprint as SMD, DNP flag, orientation, position, centre of the bounding box
\* and the pads
FootprintLib ==
    { [name |-> nR0402, value |-> <<"1", "0", "k">>, layer |-> "F_Cu", smd |-> TRUE, dnp |-> FALSE,
       orientation |-> 0, pos |-> <<MM(10), MM(20)>>, center |-> <<MM(10), MM(20)>>,
       pads |-> << Pad(<<"1">>, "SMD", 9, 20, "ROUNDRECT", TRUE),
                   Pad(<<"2">>, "SMD", 11, 20, "ROUNDRECT", TRUE) >>],
      [name |-> nR0402, value |-> <<"1", "0", "k">>, layer |-> "B_Cu", smd |-> TRUE, dnp |-> FALSE,
       orientation |-> 90, pos |-> <<MM(30), MM(20)>>, center |-> <<MM(30), MM(21)>>,
       pads |-> << Pad(<<"1">>, "SMD", 30, 19, "ROUNDRECT", TRUE),
                   Pad(<<"2">>, "SMD", 30, 22, "ROUNDRECT", TRUE) >>],
      [name |-> nDFN, value |-> <<"~">>, layer |-> "F_Cu", smd |-> TRUE, dnp |-> FALSE,
       orientation |-> 0, pos |-> <<MM(40), MM(40)>>, center |-> <<MM(40), MM(40)>>,
       pads |-> << Pad(<<"1">>, "SMD", 39, 40, "RECT", TRUE),
                   Pad(<<"2">>, "SMD", 41, 40, "RECT", TRUE),
                   Pad(<<"1">>, "SMD", 40, 41, "RECT", TRUE),
                   Pad(<<"2">>, "SMD", 40, 42, "RECT", FALSE) >>],
      [name |-> nDFN, value |-> <<"u", "1", "x">>, layer |-> "B_Cu", smd |-> FALSE, dnp |-> FALSE,
       orientation |-> 0, pos |-> <<MM(50), MM(40)>>, center |-> <<MM(50), MM(40)>>,
       pads |-> << Pad(<<"1">>, "SMD", 49, 40, "RECT", TRUE),
                   Pad(<<"2">>, "PTH", 51, 40, "CIRCLE", TRUE) >>],
      [name |-> nFid, value |-> sFiducial, layer |-> "F_Cu", smd |-> TRUE, dnp |-> FALSE,
       orientation |-> 0, pos |-> <<MM(5), MM(5)>>, center |-> <<MM(5), MM(5)>>,
       pads |-> << Pad(<<>>, "SMD", 5, 5, "CIRCLE", TRUE) >>],
      [name |-> nTP, value |-> <<"T", "P">>, layer |-> "B_Cu", smd |-> TRUE, dnp |-> FALSE,
       orientation |-> 0, pos |-> <<MM(60), MM(10)>>, center |-> <<MM(60), MM(10)>>,
       pads |-> << Pad(<<"1">>, "SMD", 60, 10, "CIRCLE", TRUE) >>],
      [name |-> nTO252, value |-> <<"R", "e", "g">>, layer |-> "F_Cu", smd |-> TRUE, dnp |-> TRUE,
       orientation |-> 0, pos |-> <<MM(70), MM(10)>>, center |-> <<MM(70), MM(10)>>,
       pads |-> << Pad(<<"1">>, "SMD", 69, 10, "RECT", TRUE),
                   Pad(<<"2">>, "SMD", 71, 10, "RECT", TRUE) >>] }

\* board.GetFootprints(): the footprint at index i has the reference 'U<i>'
Boards == UNION { [1..n -> FootprintLib] : n \in 0..MaxFootprints }

\* pad names as KiCad holds them (free text)
PadNames == { <<"1">>, <<"2">>, <<"1", "_", "2">> }

\* footprint.Pads() of one footprint: every sequence of up to MaxPads SMD pads, each
\* with one of the names and on a copper layer or not; the pad at index i lies i mm
\* to the right of the footprint's position
PadLists ==
    UNION { { [i \in 1..n |-> Pad(names[i], "SMD", 40 + i, 40, "RECT", copper[i])] :
                names \in [1..n -> PadNames], copper \in [1..n -> BOOLEAN] } :
            n \in 1..MaxPads }

\* a board of one footprint with the pads given
PadBoards ==
    { << [name |-> nDFN, value |-> <<"u", "1", "x">>, layer |-> "F_Cu", smd |-> TRUE,
          dnp |-> FALSE, orientation |-> 0, pos |-> <<MM(40), MM(40)>>,
          center |-> <<MM(40), MM(40)>>, pads |-> pads] >> : pads \in PadLists }

\* argparse: the options as parsed. no_backup and include_testpoints are declared
\* without action='store_true', so they hold False or the string given; nozzle
\* (action='append') holds None or the list of the names given.
DefaultArgs ==
    [ignore_top |-> FALSE, ignore_bottom |-> FALSE, use_value_for_part_id |-> FALSE,
     use_mixedcase |-> FALSE, read_only |-> FALSE, no_backup |-> PyFalse,
     nozzle |-> [given |-> FALSE, names |-> <<>>], include_testpoints |-> PyFalse,
     discard_duplicate_pads |-> FALSE, rotation |-> 0]

NozzleChoices ==
    { [given |-> FALSE, names |-> <<>>],
      [given |-> TRUE, names |-> <<"N140", "N045">>] }

\* every combination of the options that decide the names and the layers
NamingArgs ==
    { [DefaultArgs EXCEPT !.ignore_top = t, !.ignore_bottom = b,
                          !.use_value_for_part_id = uv, !.use_mixedcase = mc] :
        t \in BOOLEAN, b \in BOOLEAN, uv \in BOOLEAN, mc \in BOOLEAN }

\* every combination of the two other options identity_used_packages_and_parts reads
\* (kicad_tools only)
PadArgs ==
    { [DefaultArgs EXCEPT !.include_testpoints = tp, !.discard_duplicate_pads = dd] :
        tp \in {PyFalse, "1"}, dd \in BOOLEAN }

IdentifyArgs(v) == IF v = "tools" THEN NamingArgs \cup PadArgs ELSE NamingArgs

\* every combination of the options the update functions read
UpdateArgs(v) ==
    { [DefaultArgs EXCEPT !.read_only = ro, !.no_backup = nb, !.nozzle = nz] :
        ro \in BOOLEAN,
        nb \in (IF v = "tools" THEN {PyFalse, "", "1"} ELSE {PyFalse}),
        nz \in NozzleChoices }

\* parts.json as json.load returns it: a list of entries; alias is the list of
\* aliases (a single alias string is a list of one), a missing key is None
PartsJsonA ==
    << [id |-> <<"R", "_", "0", "4", "0", "2">>, alias |-> <<nR0402>>, z_mm |-> "0.4", x_mm |-> "0.6",
        y_mm |-> "1.1", ignore |-> FALSE, use_package |-> FALSE],
       [id |-> <<"R", "_", "0", "4", "0", "2">>, alias |-> <<>>, z_mm |-> "0.35", x_mm |-> "0.5",
        y_mm |-> "1", ignore |-> FALSE, use_package |-> FALSE],
       [id |-> <<"D", "f", "n", "8">>, alias |-> <<nDFN>>, z_mm |-> "0.75", x_mm |-> "2",
        y_mm |-> "2", ignore |-> FALSE, use_package |-> TRUE],
       [id |-> <<"D", "f", "n", "8">>, alias |-> <<>>, z_mm |-> "0", x_mm |-> "3",
        y_mm |-> PyNone, ignore |-> FALSE, use_package |-> FALSE],
       [id |-> <<"T", "P">>, alias |-> <<nTP>>, z_mm |-> PyNone, x_mm |-> PyNone,
        y_mm |-> PyNone, ignore |-> TRUE, use_package |-> FALSE] >>

\* the parts.json files tried; the empty list also stands for a missing file
PartsJsonChoices(v) == IF v = "tools" THEN { <<>>, PartsJsonA } ELSE { <<>> }

\* ids of the elements packages.xml and parts.xml hold before the run
ExistingIds ==
    { [packages |-> {}, parts |-> {}],
      [packages |-> {<<"R", "_", "0", "4", "0", "2">>}, parts |-> {}],
      [packages |-> {<<"R", "_", "0", "4", "0", "2">>}, parts |-> {<<"R", "_", "0", "4", "0", "2", "_", "1", "0", "K">>}] }

\* an element that was in the file before the run
ExistingElem(id) == [id |-> id, origin |-> "file"]

\* the file holding one element per id
FileOf(ids) == [id \in ids |-> ExistingElem(id)]

\* ------------------------------------------------- converter: lookup tables
Range(s) == { s[i] : i \in DOMAIN s }

\* d[k] = v for every k in keys
PutAll(d, keys, v) == [x \in (DOMAIN d) \cup keys |-> IF x \in keys THEN v ELSE d[x]]

\* the older script's tables, as far as the names of FootprintLib reach
footprint_to_package_mapping_old ==
    Put(Put(Put(<<>>, nR0402, <<"R", "_", "0", "4", "0", "2">>), nFid, <<"F", "I", "D", "U", "C", "I", "A", "L", "_", "1", "X", "2">>), nTO252, <<"T", "O", "2", "5", "2", "_", "2">>)

part_height_mapping_old == Put(<<>>, <<"R", "_", "0", "4", "0", "2">>, "0.35")

package_size_mapping_old == Put(<<>>, <<"R", "_", "0", "4", "0", "2">>, [h |-> "0.5", w |-> "1"])

\* the tables the kicad_tools script fills from parts.json at startup
RECURSIVE LoadMapping(_, _)
LoadMapping(json, d) ==
    IF json = <<>> THEN d
    ELSE LET part == Head(json)
         IN  LoadMapping(Tail(json),
                         PutAll(d, { upper(a) : a \in Range(part.alias) }, part.id))

RECURSIVE LoadHeights(_, _)
LoadHeights(json, d) ==
    IF json = <<>> THEN d
    ELSE LET part == Head(json)
         IN  LoadHeights(Tail(json),
                         IF NumTruthy(part.z_mm) THEN Put(d, part.id, part.z_mm) ELSE d)

RECURSIVE LoadSizes(_, _)
LoadSizes(json, d) ==
    IF json = <<>> THEN d
    ELSE LET part == Head(json)
         IN  LoadSizes(Tail(json),
                       IF NumTruthy(part.x_mm) /\ NumTruthy(part.y_mm)
                       THEN Put(d, part.id, [h |-> part.x_mm, w |-> part.y_mm])
                       ELSE d)

LoadIgnored(json) ==
    UNION { { upper(a) : a \in Range(json[i].alias) } : i \in { j \in DOMAIN json : json[j].ignore } }

LoadPackageAsPartId(json) ==
    UNION { { upper(a) : a \in Range(json[i].alias) } :
              i \in { j \in DOMAIN json : json[j].use_package } }

\* the startup code runs once: the tables of every parts.json tried
LoadedTables ==
    [json \in PartsJsonChoices("tools") |->
        [mapping |-> LoadMapping(json, <<>>), heights |-> LoadHeights(json, <<>>),
         sizes |-> LoadSizes(json, <<>>), ignored |-> LoadIgnored(json),
         package_as_part_id |-> LoadPackageAsPartId(json)]]

footprint_to_package_mapping ==
    IF version = "old" THEN footprint_to_package_mapping_old
    ELSE LoadedTables[parts_json].mapping

part_height_mapping ==
    IF version = "old" THEN part_height_mapping_old ELSE LoadedTables[parts_json].heights

package_size_mapping ==
    IF version = "old" THEN package_size_mapping_old ELSE LoadedTables[parts_json].sizes

ignored_parts == LoadedTables[parts_json].ignored

package_as_part_id == LoadedTables[parts_json].package_as_part_id

\* backup_location: None in read-only mode or when --no_backup holds a true value
\* (the older script makes no backups)
backup_location(a) == version = "tools" /\ ~a.read_only /\ ~Truthy(a.no_backup)

\* ------------------------------------- converter: identity_used_packages_and_parts
\* "if not use_mixedcase: name = name.upper()"
ApplyCaseBug(name, use_mixedcase) == name
ApplyCase(name, use_mixedcase) == IF ~use_mixedcase THEN upper(name) ELSE name

\* "if ignore_top and layer == F_Cu: continue / elif ignore_bottom and layer == B_Cu: continue"
SkipLayerBug(layer, ignore_top, ignore_bottom) == ignore_top /\ layer = "F_Cu"
SkipLayer(layer, ignore_top, ignore_bottom) ==
    IF ignore_top /\ layer = "F_Cu" THEN TRUE
    ELSE ignore_bottom /\ layer = "B_Cu"

\* 'Top' if footprint.GetLayer() == pcbnew.F_Cu else 'Bottom'
Side(layer) == IF layer = "F_Cu" THEN "Top" ELSE "Bottom"

PlacementType(fp_value) == IF ~Contains(sFiducial, fp_value) THEN "Placement" ELSE "Fiducial"

\* the reference of the footprint at index i of the board
Reference(i) == i

\* list.sort() of a list of references
RECURSIVE SortRefs(_)
SortRefs(s) ==
    IF s = <<>> THEN <<>>
    ELSE LET m == CHOOSE x \in Range(s) : \A y \in Range(s) : x <= y
             i == CHOOSE j \in DOMAIN s : s[j] = m
         IN  <<m>> \o SortRefs(SubSeq(s, 1, i - 1) \o SubSeq(s, i + 1, Len(s)))

\* kicad_tools: the part name (part-id) of a footprint, before the case is applied
PartNameBug(package_name, fp_value, lib_name, use_value_for_part_id) ==
    IF ~Contains(sFiducial, fp_value) THEN Format2(package_name, fp_value) ELSE package_name
PartName(package_name, fp_value, lib_name, use_value_for_part_id) ==
    IF fp_value = sTilde THEN package_name
    ELSE IF use_value_for_part_id THEN fp_value
    ELSE IF upper(lib_name) \in package_as_part_id THEN package_name
    ELSE IF ~Contains(sFiducial, fp_value) THEN Format2(package_name, fp_value)
    ELSE package_name

\* older script: placement_name
PartName_old(fp_name, fp_value, use_value_for_part_id) ==
    IF use_value_for_part_id THEN fp_value
    ELSE IF ~Contains(sFiducial, fp_value) THEN Format2(fp_name, fp_value)
    ELSE fp_name

\* the entry recorded for a pad on a copper layer
PadEntry(pad, x, y) ==
    IF pad.shape \in {"ROUNDRECT", "CIRCLE"}
    THEN [w |-> to_millimeters(pad.size[1]), h |-> to_millimeters(pad.size[2]),
          x |-> x, y |-> y, shape |-> pad.shape, radius |-> to_millimeters(pad.radius)]
    ELSE [w |-> to_millimeters(pad.size[1]), h |-> to_millimeters(pad.size[2]),
          x |-> x, y |-> y, shape |-> pad.shape]

\* "if 'FIDUCIAL' in package_name.upper() and pad_name == '': pad_name = '1'"
PadName(pad, package_name) ==
    IF Contains(sFIDUCIAL, upper(package_name)) /\ pad.name = <<>> THEN <<"1">> ELSE pad.name

\* footprint.Rotate(footprint.GetCenter(), footprint.GetOrientation() * -1.0)
Rotated(fp) ==
    [fp EXCEPT !.pos = RotatePoint(fp.pos, fp.center, 0 - fp.orientation),
               !.pads = [i \in DOMAIN fp.pads |->
                            [fp.pads[i] EXCEPT !.pos = RotatePoint(fp.pads[i].pos, fp.center,
                                                                   0 - fp.orientation)]],
               !.orientation = 0]

\* kicad_tools: "for pad in footprint.Pads()" filling packages[package_name]
RECURSIVE AddPads(_, _, _, _, _)
AddPads(table, pads, fp_pos, package_name, discard_duplicate_pads) ==
    IF pads = <<>> THEN table
    ELSE LET pad == Head(pads)
             fp_offs_x_mm == to_millimeters(pad.pos[1] - fp_pos[1])
             fp_offs_y_mm == to_millimeters(pad.pos[2] - fp_pos[2])
             name == PadName(pad, package_name)
             pad_name == IF name \in DOMAIN table /\ ~discard_duplicate_pads
                         THEN Format2(name, IntStr(Cardinality(DOMAIN table)))
                         ELSE name
         IN  AddPads(IF pad.copper
                     THEN Put(table, pad_name, PadEntry(pad, fp_offs_x_mm, fp_offs_y_mm))
                     ELSE table,
                     Tail(pads), fp_pos, package_name, discard_duplicate_pads)

\* older script: "for pad in footprint.Pads()" filling packages[fp_name]
RECURSIVE AddPads_old(_, _, _, _)
AddPads_old(table, pads, fp_pos, fp_name) ==
    IF pads = <<>> THEN table
    ELSE LET pad == Head(pads)
             fp_offs_x_mm == to_millimeters(pad.pos[1] - fp_pos[1])
             fp_offs_y_mm == to_millimeters(pad.pos[2] - fp_pos[2])
             pad_name == PadName(pad, fp_name)
         IN  AddPads_old(IF pad.copper
                         THEN Put(table, pad_name, PadEntry(pad, fp_offs_x_mm, fp_offs_y_mm))
                         ELSE table,
                         Tail(pads), fp_pos, fp_name)

\* the placement appended for a footprint
Placement(ref, fp, part_name, rotation) ==
    [id |-> ref, side |-> Side(fp.layer), part_id |-> part_name,
     type |-> PlacementType(fp.value), x |-> to_millimeters(fp.pos[1]),
     y |-> to_millimeters(fp.pos[2]), rotation |-> fp.orientation + rotation]

\* kicad_tools: whether the loop body leaves the footprint out ("continue", or no SMD pad)
Skipped(fp, a) ==
    \/ ~(\E i \in DOMAIN fp.pads : fp.pads[i].attr = "SMD")
    \/ fp.dnp
    \/ SkipLayer(fp.layer, a.ignore_top, a.ignore_bottom)
    \/ LET package_name_upper == upper(fp.name)
       IN  \/ package_name_upper \in ignored_parts
           \/ Contains(sTESTPOINT, package_name_upper) /\ ~Truthy(a.include_testpoints)

\* the pass without "if package_name not in packages": every footprint fills the pad
\* table of its package again
ProcessFootprintBug(acc, fp, ref, a) ==
    IF Skipped(fp, a) THEN acc
    ELSE
    LET mapping == footprint_to_package_mapping
        package_name_upper == upper(fp.name)
        mapped == IF package_name_upper \in DOMAIN mapping
                  THEN mapping[package_name_upper]
                  ELSE fp.name
        part_name == ApplyCase(PartName(mapped, fp.value, fp.name, a.use_value_for_part_id),
                               a.use_mixedcase)
        package_name == ApplyCase(mapped, a.use_mixedcase)
        refs == IF part_name \in DOMAIN acc.parts
                THEN Append(acc.parts[part_name].refs, ref)
                ELSE <<ref>>
        part == IF part_name \in DOMAIN acc.parts
                THEN [acc.parts[part_name] EXCEPT !.count = @ + 1, !.refs = SortRefs(refs)]
                ELSE [package |-> package_name, count |-> 1, refs |-> SortRefs(refs)]
        upright == IF fp.orientation # 0 THEN Rotated(fp) ELSE fp
    IN  [packages |-> Put(acc.packages, package_name,
                           AddPads(<<>>, upright.pads, upright.pos, package_name,
                                   a.discard_duplicate_pads)),
         parts |-> Put(acc.parts, part_name, part),
         placements |-> Append(acc.placements, Placement(ref, fp, part_name, a.rotation))]

\* kicad_tools: one pass of "for footprint in board.GetFootprints()"; acc holds
\* packages, parts and placements
ProcessFootprint(acc, fp, ref, a) ==
    IF Skipped(fp, a) THEN acc
    ELSE
    LET mapping == footprint_to_package_mapping
        package_name_upper == upper(fp.name)
        mapped == IF package_name_upper \in DOMAIN mapping
                  THEN mapping[package_name_upper]
                  ELSE fp.name
        part_name == ApplyCase(PartName(mapped, fp.value, fp.name, a.use_value_for_part_id),
                               a.use_mixedcase)
        package_name == ApplyCase(mapped, a.use_mixedcase)
        refs == IF part_name \in DOMAIN acc.parts
                THEN Append(acc.parts[part_name].refs, ref)
                ELSE <<ref>>
        part == IF part_name \in DOMAIN acc.parts
                THEN [acc.parts[part_name] EXCEPT !.count = @ + 1, !.refs = SortRefs(refs)]
                ELSE [package |-> package_name, count |-> 1, refs |-> SortRefs(refs)]
        upright == IF fp.orientation # 0 THEN Rotated(fp) ELSE fp
    IN  [packages |-> IF package_name \notin DOMAIN acc.packages
                      THEN Put(acc.packages, package_name,
                               AddPads(<<>>, upright.pads, upright.pos, package_name,
                                       a.discard_duplicate_pads))
                      ELSE acc.packages,
         parts |-> Put(acc.parts, part_name, part),
         placements |-> Append(acc.placements, Placement(ref, fp, part_name, a.rotation))]

\* older script: one pass of "for footprint in board.GetFootprints()"
ProcessFootprint_old(acc, fp, ref, a) ==
    IF ~fp.smd \/ SkipLayer(fp.layer, a.ignore_top, a.ignore_bottom) THEN acc
    ELSE
    LET mapped == IF fp.name \in DOMAIN footprint_to_package_mapping
                  THEN footprint_to_package_mapping[fp.name]
                  ELSE fp.name
        placement_name == ApplyCase(PartName_old(mapped, fp.value, a.use_value_for_part_id),
                                    a.use_mixedcase)
        fp_name == ApplyCase(mapped, a.use_mixedcase)
    IN  [packages |-> Put(acc.packages, fp_name, AddPads_old(<<>>, fp.pads, fp.pos, fp_name)),
         parts |-> Put(acc.parts, placement_name, [package |-> fp_name]),
         placements |-> Append(acc.placements, Placement(ref, fp, placement_name, 0))]

\* the loop over the footprints of a board, from index i on
RECURSIVE IdentifyFrom(_, _, _, _)
IdentifyFrom(acc, b, i, a) ==
    IF i > Len(b) THEN acc
    ELSE IdentifyFrom(IF version = "tools" THEN ProcessFootprint(acc, b[i], Reference(i), a)
                      ELSE ProcessFootprint_old(acc, b[i], Reference(i), a),
                      b, i + 1, a)

identity_used_packages_and_parts(b, a) ==
    IdentifyFrom([packages |-> <<>>, parts |-> <<>>, placements |-> <<>>], b, 1, a)

\* -------------------------------------------- converter: the update functions
\* 'height' of a new part element
PartHeightBug(package, package_heights) == "0.0"
PartHeight(package, package_heights) ==
    IF package \in DOMAIN package_heights THEN package_heights[package] ELSE "0.0"

\* 'body-width' and 'body-height' of a new package element
BodyWidth(package) ==
    IF package \in DOMAIN package_size_mapping THEN package_size_mapping[package].w ELSE "0.0"

BodyHeight(package) ==
    IF package \in DOMAIN package_size_mapping THEN package_size_mapping[package].h ELSE "0.0"

\* the <pad> element of a package
PadElem(pad, values) ==
    IF values.shape = "CIRCLE"
    THEN IF Contains(sFIDUCIAL, upper(pad))
         THEN [name |-> pad, x |-> "0.0", y |-> "0.0", width |-> FloatStr(values.w),
               height |-> FloatStr(values.h), rotation |-> "0.0", roundness |-> "100.0"]
         ELSE [name |-> pad, x |-> FloatStr(values.x), y |-> FloatStr(values.y),
               width |-> FloatStr(values.w), height |-> FloatStr(values.h),
               rotation |-> "0.0", roundness |-> "100.0"]
    ELSE [name |-> pad, x |-> FloatStr(values.x), y |-> FloatStr(values.y),
          width |-> FloatStr(values.w), height |-> FloatStr(values.h), rotation |-> "0.0"]

\* the <package> element created for a package packages.xml does not hold
PackageElem(package, pads, usable_nozzles) ==
    [id |-> package, origin |-> "new", body_width |-> BodyWidth(package),
     body_height |-> BodyHeight(package),
     nozzles |-> IF usable_nozzles.given THEN usable_nozzles.names ELSE <<>>,
     pads |-> [p \in DOMAIN pads |-> PadElem(p, pads[p])]]

\* the <part> element created for a part parts.xml does not hold
PartElem(part, package, package_heights) ==
    [id |-> part, origin |-> "new", name |-> part,
     height |-> PartHeight(package, package_heights), package_id |-> package]

\* ids in `wanted` that findall() does not find in the parsed file
NewIds(wanted, file) == { id \in wanted : id \notin DOMAIN file }

\* "if is_read_only: ... elif new_added:": whether the file is written
WriteNeededBug(is_read_only, new_added) == new_added
WriteNeeded(is_read_only, new_added) ==
    IF is_read_only THEN FALSE ELSE new_added

\* the file system calls of the branch that writes `file`: shutil.copy when there is
\* a backup location, then write
WriteCallsBug(file, old, new, backup) ==
    <<[op |-> "write", file |-> file, content |-> new]>> \o
    (IF backup THEN <<[op |-> "copy", file |-> file, content |-> new]>> ELSE <<>>)
WriteCalls(file, old, new, backup) ==
    (IF backup THEN <<[op |-> "copy", file |-> file, content |-> old]>> ELSE <<>>) \o
    <<[op |-> "write", file |-> file, content |-> new]>>

\* the older script iterates usable_nozzles without a test: None is not iterable
NozzleLoopRaises(usable_nozzles) == version = "old" /\ ~usable_nozzles.given

\* ------------------------------------------------------ converter: the run
InitConv ==
    /\ cpc = "start"
    /\ version \in Versions
    /\ parts_json \in PartsJsonChoices(version)
    /\ board \in Boards
    /\ \/ /\ args \in IdentifyArgs(version)
          /\ packages_xml = FileOf({})
          /\ parts_xml = FileOf({})
       \/ /\ args \in UpdateArgs(version)
          /\ \E ids \in ExistingIds : /\ packages_xml = FileOf(ids.packages)
                                     /\ parts_xml = FileOf(ids.parts)
    /\ packages = <<>>
    /\ parts = <<>>
    /\ placements = <<>>
    /\ board_xml = [written |-> FALSE, placements |-> <<>>]
    /\ fsLog = <<>>

\* packages, parts, placements = identity_used_packages_and_parts(board, ...)
Identify ==
    /\ cpc = "start"
    /\ LET r == identity_used_packages_and_parts(board, args)
       IN  /\ packages' = r.packages
           /\ parts' = r.parts
           /\ placements' = r.placements
    /\ cpc' = "identified"
    /\ UNCHANGED <<version, args, parts_json, board, packages_xml, parts_xml, board_xml, fsLog>>
    /\ UNCHANGED <<labelVars, scanVars>>

\* update_packages_xml(packages, packages_xml, args.nozzle, args.read_only, backup_location)
UpdatePackagesXml ==
    /\ cpc = "identified"
    /\ LET new == NewIds(DOMAIN packages, packages_xml)
           tree == [id \in (DOMAIN packages_xml) \cup new |->
                       IF id \in new THEN PackageElem(id, packages[id], args.nozzle)
                       ELSE packages_xml[id]]
       IN  /\ ~(new # {} /\ NozzleLoopRaises(args.nozzle))
           /\ IF WriteNeeded(args.read_only, new # {})
              THEN /\ fsLog' = fsLog \o WriteCalls("packages.xml", packages_xml, tree,
                                                   backup_location(args))
                   /\ packages_xml' = tree
              ELSE UNCHANGED <<fsLog, packages_xml>>
    /\ cpc' = "packages"
    /\ UNCHANGED <<version, args, parts_json, board, packages, parts, placements, parts_xml,
                   board_xml>>
    /\ UNCHANGED <<labelVars, scanVars>>

\* older script without --nozzle: creating the first new package raises TypeError and
\* the script ends
UpdatePackagesXmlRaises ==
    /\ cpc = "identified"
    /\ NewIds(DOMAIN packages, packages_xml) # {}
    /\ NozzleLoopRaises(args.nozzle)
    /\ cpc' = "raised"
    /\ UNCHANGED <<version, args, parts_json, board, packages, parts, placements,
                   packages_xml, parts_xml, board_xml, fsLog>>
    /\ UNCHANGED <<labelVars, scanVars>>

\* update_parts_xml(parts, parts_xml, args.read_only, backup_location, part_height_mapping)
UpdatePartsXml ==
    /\ cpc = "packages"
    /\ LET new == NewIds(DOMAIN parts, parts_xml)
           tree == [id \in (DOMAIN parts_xml) \cup new |->
                       IF id \in new
                       THEN PartElem(id, parts[id].package, part_height_mapping)
                       ELSE parts_xml[id]]
       IN  IF WriteNeeded(args.read_only, new # {})
           THEN /\ fsLog' = fsLog \o WriteCalls("parts.xml", parts_xml, tree,
                                                backup_location(args))
                /\ parts_xml' = tree
           ELSE UNCHANGED <<fsLog, parts_xml>>
    /\ cpc' = "parts"
    /\ UNCHANGED <<version, args, parts_json, board, packages, parts, placements,
                   packages_xml, board_xml>>
    /\ UNCHANGED <<labelVars, scanVars>>

\* the board origin (GetAuxOrigin), in millimetres
board_origin == <<2, 3>>

\* the <placement> element of board.xml; round() leaves whole millimetres as they are
PlacementElem(placement) ==
    [id |-> placement.id, side |-> placement.side, part_id |-> placement.part_id,
     type |-> placement.type, enabled |-> "true",
     x |-> FloatStr(Abs(placement.x - board_origin[1])),
     y |-> FloatStr(Abs(placement.y - board_origin[2])),
     rotation |-> FloatStr(placement.rotation)]

\* create_board_xml(placements, ...)
CreateBoardXml ==
    /\ cpc = "parts"
    /\ board_xml' = [written |-> TRUE,
                     placements |-> [i \in DOMAIN placements |-> PlacementElem(placements[i])]]
    /\ fsLog' = Append(fsLog, [op |-> "write", file |-> "board.xml", content |-> board_xml'])
    /\ cpc' = "done"
    /\ UNCHANGED <<version, args, parts_json, board, packages, parts, placements,
                   packages_xml, parts_xml>>
    /\ UNCHANGED <<labelVars, scanVars>>

NextConv ==
    \/ Identify
    \/ UpdatePackagesXml
    \/ UpdatePackagesXmlRaises
    \/ UpdatePartsXml
    \/ CreateBoardXml

\* the converter run alone; the paginator does not run
InitConverter == InitConv /\ LabelsOff /\ ScanOff

SpecConv == InitConverter /\ [][NextConv]_vars

\* runs of the converter on the one-footprint boards, with and without
\* --discard_duplicate_pads, the other options at their defaults
InitPads ==
    /\ cpc = "start"
    /\ version \in Versions
    /\ parts_json = <<>>
    /\ board \in PadBoards
    /\ args \in { [DefaultArgs EXCEPT !.discard_duplicate_pads = dd] :
                    dd \in (IF version = "tools" THEN BOOLEAN ELSE {FALSE}) }
    /\ packages_xml = FileOf({})
    /\ parts_xml = FileOf({})
    /\ packages = <<>>
    /\ parts = <<>>
    /\ placements = <<>>
    /\ board_xml = [written |-> FALSE, placements |-> <<>>]
    /\ fsLog = <<>>

InitPadRuns == InitPads /\ LabelsOff /\ ScanOff

SpecPads == InitPadRuns /\ [][NextConv]_vars

\* --------------------------------- feeder scan: scan-feeders-for-part-labels.py
\* "When this is set to True, if a part label is not detected or the detected part
\* does not exist in OpenPnP the feeder will be disabled."
disable_feeders_without_parts == TRUE

\* the feeder classes; str(feeder) holds the class name
kSlotAuto == "ReferenceSlotAutoFeeder"
kSchultz == "SlotSchultzFeeder"
kTube == "ReferenceTubeFeeder"

\* a part of the configuration
ConfigPart(id, name) == [id |-> id, name |-> name, package |-> "PK"]

\* detected_part = None
NoPart == [id |-> PyNone, name |-> PyNone, package |-> PyNone]

\* Part(value) with the name and the package set (height 0.0)
NewPart(value, package) == [id |-> value, name |-> value, package |-> package]

\* the parts and the packages of the configuration before the scan
ConfigChoices ==
    { [parts |-> <<>>, packages |-> <<>>],
      [parts |-> <<>>, packages |-> <<"PK">>],
      [parts |-> << ConfigPart("P1", "P1"), ConfigPart("P2", "Cap") >>, packages |-> <<"PK">>],
      [parts |-> << ConfigPart("P1", "Res"), ConfigPart("P2", "P1") >>, packages |-> <<"PK">>] }

\* a feeder of a bank: its name and the id of its part (None when it has none)
BankFeeder(name, part) == [name |-> name, part |-> part]

\* the bank before the scan
BankChoices ==
    { <<>>,
      << BankFeeder("F1", "P1") >>,
      << BankFeeder("Cap", PyNone), BankFeeder("F2", "P2") >> }

\* the feeders of the machine: slot feeders hold the bank feeder assigned to them
\* (its index in the bank, 0 for none), other feeders the id of their part
ScanFeederLib ==
    { [kind |-> kSlotAuto, enabled |-> TRUE, feeder |-> 0, part |-> PyNone],
      [kind |-> kSlotAuto, enabled |-> FALSE, feeder |-> 0, part |-> PyNone],
      [kind |-> kSchultz, enabled |-> TRUE, feeder |-> 0, part |-> PyNone],
      [kind |-> kTube, enabled |-> TRUE, feeder |-> 0, part |-> "P1"],
      [kind |-> kTube, enabled |-> TRUE, feeder |-> 0, part |-> PyNone] }

\* what VisionUtils.readQrCode gives: a text, '' or None, or an exception
ReadResults == {"P1", "Cap", "P9", "", PyNone, "<raise>"}

\* find_feeder_in_bank_for_part: the index of the first bank feeder of that part or
\* of that name, 0 for None
find_feeder_in_bank_for_part(part, b) ==
    LET fits == { i \in DOMAIN b :
                    \/ b[i].part # PyNone /\ b[i].part = part.id
                    \/ b[i].name = part.name }
    IN  IF fits = {} THEN 0 ELSE CHOOSE i \in fits : \A j \in fits : i <= j

\* get_package_from_user: the package of the id chosen in the dialog, None when the
\* dialog is cancelled or there is no package
get_package_from_user(response) ==
    IF Len(cfgPackages) > 0 /\ response \in Range(cfgPackages) THEN response ELSE PyNone

\* find_part_for_label: the part detected and the parts of the configuration after
\* it; value is what the camera read, confirm and response the user's answers
find_part_for_label(value, confirm, response) ==
    IF value \in {"<raise>", PyNone, ""}
    THEN [part |-> NoPart, parts |-> cfgParts]
    ELSE LET same == { i \in DOMAIN cfgParts :
                         cfgParts[i].name = value \/ cfgParts[i].id = value }
             package == get_package_from_user(response)
         IN  IF same # {}
             THEN [part |-> cfgParts[CHOOSE i \in same : \A j \in same : j <= i],
                   parts |-> cfgParts]
             ELSE IF create_missing_parts /\ confirm /\ package # PyNone
             THEN [part |-> NewPart(value, package),
                   parts |-> Append(cfgParts, NewPart(value, package))]
             ELSE [part |-> NoPart, parts |-> cfgParts]

InitScan ==
    /\ spc = "start"
    /\ machine \in { [enabled |-> TRUE, camera |-> TRUE], [enabled |-> FALSE, camera |-> TRUE],
                      [enabled |-> TRUE, camera |-> FALSE] }
    /\ create_missing_parts = TRUE
    /\ \E c \in ConfigChoices : cfgParts = c.parts /\ cfgPackages = c.packages
    /\ feeders \in UNION { [1..n -> ScanFeederLib] : n \in 0..MaxFeeders }
    /\ bank \in BankChoices
    /\ fi = 0
    /\ detected_part = NoPart
    /\ scanLog = <<>>

\* the checks before the loop: machine started, default camera, packages for part
\* creation
ScanStart ==
    /\ spc = "start"
    /\ machine.enabled /\ machine.camera
    /\ create_missing_parts' = (create_missing_parts /\ Len(cfgPackages) # 0)
    /\ fi' = 1
    /\ spc' = "label"
    /\ UNCHANGED <<machine, cfgParts, cfgPackages, feeders, bank, detected_part, scanLog>>
    /\ UNCHANGED <<labelVars, convVars>>

\* show_error_dialog raises: machine not started, or no default camera
ScanStartRaises ==
    /\ spc = "start"
    /\ ~(machine.enabled /\ machine.camera)
    /\ spc' = "raised"
    /\ UNCHANGED <<machine, create_missing_parts, cfgParts, cfgPackages, feeders, bank, fi,
                   detected_part, scanLog>>
    /\ UNCHANGED <<labelVars, convVars>>

\* detected_part = find_part_for_label(camera, feeder_name, label_location)
FindPartForLabel ==
    /\ spc = "label"
    /\ fi <= Len(feeders)
    /\ \E value \in ReadResults, confirm \in BOOLEAN, response \in {PyNone} \cup Range(cfgPackages) :
          LET r == find_part_for_label(value, confirm, response)
          IN  /\ detected_part' = r.part
              /\ cfgParts' = r.parts
    /\ spc' = "update"
    /\ UNCHANGED <<machine, create_missing_parts, cfgPackages, feeders, bank, fi, scanLog>>
    /\ UNCHANGED <<labelVars, convVars>>

\* whether the rest of the loop body raises: SlotSchultzFeeder is not imported
\* (NameError when a feeder is to be created for such a slot), and feeder.getPart()
\* is None for a feeder without part
UpdateRaises(f, part, confirm) ==
    /\ part # NoPart
    /\ IF f.kind \in {kSlotAuto, kSchultz}
       THEN /\ f.kind = kSchultz
            /\ find_feeder_in_bank_for_part(part, bank) = 0
            /\ create_missing_parts /\ confirm
       ELSE f.part = PyNone

\* the slot or feeder after the rest of the loop body, and the bank after it
UpdatedFeeder(f, part, confirm) ==
    IF part # NoPart
    THEN IF f.kind \in {kSlotAuto, kSchultz}
         THEN LET part_feeder == find_feeder_in_bank_for_part(part, bank)
              IN  IF part_feeder # 0
                  THEN [feeder |-> [f EXCEPT !.feeder = part_feeder, !.enabled = TRUE],
                        bank |-> bank]
                  ELSE IF create_missing_parts /\ confirm
                  THEN [feeder |-> [f EXCEPT !.feeder = Len(bank) + 1, !.enabled = TRUE],
                        bank |-> Append(bank, BankFeeder(part.id, part.id))]
                  ELSE IF disable_feeders_without_parts
                  THEN [feeder |-> [f EXCEPT !.enabled = FALSE], bank |-> bank]
                  ELSE [feeder |-> f, bank |-> bank]
         ELSE IF f.part # part.id
         THEN [feeder |-> [f EXCEPT !.part = part.id], bank |-> bank]
         ELSE [feeder |-> f, bank |-> bank]
    ELSE IF disable_feeders_without_parts
    THEN [feeder |-> [f EXCEPT !.enabled = FALSE], bank |-> bank]
    ELSE [feeder |-> f, bank |-> bank]

\* "if detected_part: ... else: ..." of the loop body, then the next feeder
UpdateFeeder ==
    /\ spc = "update"
    /\ \E confirm \in BOOLEAN :
          /\ ~UpdateRaises(feeders[fi], detected_part, confirm)
          /\ LET r == UpdatedFeeder(feeders[fi], detected_part, confirm)
             IN  /\ feeders' = [feeders EXCEPT ![fi] = r.feeder]
                 /\ bank' = r.bank
    /\ scanLog' = Append(scanLog, [feeder |-> fi, part |-> detected_part,
                                    banksize |-> Len(bank)])
    /\ fi' = fi + 1
    /\ spc' = "label"
    /\ UNCHANGED <<machine, create_missing_parts, cfgParts, cfgPackages, detected_part>>
    /\ UNCHANGED <<labelVars, convVars>>

\* the loop body ends with an exception
UpdateFeederRaises ==
    /\ spc = "update"
    /\ \E confirm \in BOOLEAN : UpdateRaises(feeders[fi], detected_part, confirm)
    /\ spc' = "raised"
    /\ UNCHANGED <<machine, create_missing_parts, cfgParts, cfgPackages, feeders, bank, fi,
                   detected_part, scanLog>>
    /\ UNCHANGED <<labelVars, convVars>>

\* the loop is over: gui.getFeedersTab().repaint()
ScanEnd ==
    /\ spc = "label"
    /\ fi > Len(feeders)
    /\ spc' = "done"
    /\ UNCHANGED <<machine, create_missing_parts, cfgParts, cfgPackages, feeders, bank, fi,
                   detected_part, scanLog>>
    /\ UNCHANGED <<labelVars, convVars>>

NextScan ==
    \/ ScanStart
    \/ ScanStartRaises
    \/ FindPartForLabel
    \/ UpdateFeeder
    \/ UpdateFeederRaises
    \/ ScanEnd

\* the feeder scan alone
InitScanner ==
    /\ InitScan
    /\ LabelsOff
    /\ ConvOff

SpecScan == InitScanner /\ [][NextScan]_vars

\* ------------------------------------------------------- claims, labels
\* sheet position of a pasted label, counted from 0 across pages
SheetPosition(p) == p.page * labelsPerSheet + p.columnIndex * columns + p.rowIndex

\* C1: when generate() ends it has saved exactly ceil((startIndex + N) / (rows * columns))
\* pages, numbered without gaps, each with at most rows * columns entries, and the N
\* label images were pasted once each, in list order, the first at sheet position
\* startIndex and each next one position further.
C1_Pagination ==
    lpc = "done" =>
        LET total == startIndex + Len(fileLabels)
            P == Len(savedPages)
        IN  /\ P * labelsPerSheet >= total
            /\ (P > 0 => (P - 1) * labelsPerSheet < total)
            /\ \A k \in 1..P : /\ savedPages[k].page = k - 1
                               /\ savedPages[k].entries <= labelsPerSheet
            /\ Len(pasted) = Len(fileLabels)
            /\ \A k \in 1..Len(pasted) : /\ pasted[k].label = fileLabels[k]
                                         /\ SheetPosition(pasted[k]) = startIndex + k - 1

C1_Witness ==
    /\ lpc = "done"
    /\ startIndex > labelsPerSheet
    /\ Len(fileLabels) >= 3
    /\ Len(savedPages) >= 2
    /\ (startIndex + Len(fileLabels)) % labelsPerSheet # 0

\* C2: inside create_page the cursor is one position further for every entry consumed,
\* blank entries included, and starts a new grid row after `columns` entries; every
\* label pasted lies inside the rows x columns grid.
C2_CursorInGrid ==
    /\ lpc = "in_page" => /\ rowIndex = pos % columns
                          /\ columnIndex = pos \div columns
                          /\ labelIndex = pos
    /\ \A k \in 1..Len(pasted) : /\ pasted[k].rowIndex \in 0..(columns - 1)
                                 /\ pasted[k].columnIndex \in 0..(rows - 1)

C2_Witness ==
    /\ lpc = "in_page"
    /\ columns >= 2 /\ rows >= 2
    /\ startIndex >= 1
    /\ pos = labelsPerSheet
    /\ \E k \in 1..Len(pasted) : /\ pasted[k].rowIndex = columns - 1
                                 /\ pasted[k].columnIndex = rows - 1

\* C3: generate() reaches its end for every label list and start index, and from then
\* on the working list is empty.
C3_Terminates == <>[](lpc = "done" /\ labelsList = <<>>)

C3_Witness ==
    /\ lpc = "done"
    /\ labelsList = <<>>
    /\ Len(savedPages) >= 2
    /\ startIndex > 0
    /\ Len(fileLabels) > 0

\* ---------------------------------------------------- claims, converter
\* the log entries that touch a file
CallsOn(file) == { i \in DOMAIN fsLog : fsLog[i].file = file }

\* every element of a file was there before the run
Untouched(file) == \A id \in DOMAIN file : file[id].origin = "file"

\* C4: kicad_tools with --read_only: packages.xml and parts.xml are never written or
\* copied, whatever is missing from them, the run does not end early, and the board.xml
\* written at the end holds one placement element per placement, in order.
C4_ReadOnly ==
    (version = "tools" /\ args.read_only) =>
        /\ CallsOn("packages.xml") = {}
        /\ CallsOn("parts.xml") = {}
        /\ Untouched(packages_xml)
        /\ Untouched(parts_xml)
        /\ cpc # "raised"
        /\ cpc = "done" =>
              /\ board_xml.written
              /\ Len(board_xml.placements) = Len(placements)
              /\ \A i \in DOMAIN placements :
                    /\ board_xml.placements[i].id = placements[i].id
                    /\ board_xml.placements[i].part_id = placements[i].part_id
                    /\ board_xml.placements[i].side = placements[i].side

C4_Witness ==
    /\ version = "tools"
    /\ args.read_only
    /\ cpc = "done"
    /\ Len(placements) = 2
    /\ NewIds(DOMAIN packages, packages_xml) # {}
    /\ NewIds(DOMAIN parts, parts_xml) # {}
    /\ DOMAIN packages_xml # {}

\* C5 (as claimed): without --nozzle the run goes on and every package created has an
\* empty nozzle list; with --nozzle every package created lists the names given, in
\* order; for both scripts.
C5_DefaultNozzles ==
    /\ ~args.nozzle.given => cpc # "raised"
    /\ \A id \in DOMAIN packages_xml :
          packages_xml[id].origin = "new" =>
              packages_xml[id].nozzles = (IF args.nozzle.given THEN args.nozzle.names ELSE <<>>)

\* no lower-case letter in s
LowerLetters == Range(LowerCase)

IsUpper(s) == \A i \in DOMAIN s : s[i] \notin LowerLetters

\* C6: without --use_mixedcase the keys of packages and of parts, the package stored
\* for each part and the part-id of each placement hold no lower-case letter.
C6_UpperCase ==
    (cpc \notin {"off", "start"} /\ ~args.use_mixedcase) =>
        /\ \A k \in DOMAIN packages : IsUpper(k)
        /\ \A k \in DOMAIN parts : IsUpper(k) /\ IsUpper(parts[k].package)
        /\ \A i \in DOMAIN placements : IsUpper(placements[i].part_id)

C6_Witness ==
    /\ cpc = "identified"
    /\ ~args.use_mixedcase
    /\ version = "tools"
    /\ parts_json = PartsJsonA
    /\ <<"D", "F", "N", "8">> \in DOMAIN packages
    /\ <<"1", "0", "K">> \in DOMAIN parts
    /\ \E i \in DOMAIN placements : placements[i].part_id = <<"1", "0", "K">>

\* the Value of the footprint a placement was made for, in the case the run uses
ValueOf(p) == IF args.use_mixedcase THEN board[p.id].value ELSE upper(board[p.id].value)

C8_LookupDefaults ==
    /\ \A id \in DOMAIN parts_xml :
          parts_xml[id].origin = "new" =>
              /\ parts_xml[id].package_id = parts[id].package
              /\ parts_xml[id].height =
                    (IF parts[id].package \in DOMAIN part_height_mapping
                     THEN part_height_mapping[parts[id].package] ELSE "0.0")
    /\ \A id \in DOMAIN packages_xml :
          packages_xml[id].origin = "new" =>
              IF id \in DOMAIN package_size_mapping
              THEN /\ packages_xml[id].body_width = package_size_mapping[id].w
                   /\ packages_xml[id].body_height = package_size_mapping[id].h
              ELSE /\ packages_xml[id].body_width = "0.0"
                   /\ packages_xml[id].body_height = "0.0"

C8_Witness ==
    /\ cpc = "done"
    /\ version = "tools"
    /\ parts_json = PartsJsonA
    /\ \E id \in DOMAIN parts_xml : /\ parts_xml[id].origin = "new"
                                    /\ parts_xml[id].height = "0.35"
    /\ \E id \in DOMAIN parts_xml : /\ parts_xml[id].origin = "new"
                                    /\ parts_xml[id].height = "0.0"
    /\ \E id \in DOMAIN packages_xml : /\ packages_xml[id].origin = "new"
                                       /\ packages_xml[id].body_width = "1"
                                       /\ packages_xml[id].body_height = "0.5"
    /\ \E id \in DOMAIN packages_xml : /\ packages_xml[id].origin = "new"
                                       /\ packages_xml[id].body_width = "0.0"

\* the board with the footprints of one layer made invisible to the converter (no
\* pad, not SMD)
WithoutLayer(b, layer) ==
    [i \in DOMAIN b |-> IF b[i].layer = layer
                        THEN [b[i] EXCEPT !.pads = <<>>, !.smd = FALSE]
                        ELSE b[i]]

WithoutIgnored(b, a) ==
    LET b1 == IF a.ignore_top THEN WithoutLayer(b, "F_Cu") ELSE b
    IN  IF a.ignore_bottom THEN WithoutLayer(b1, "B_Cu") ELSE b1

\* the filters of the loop other than the layer options
PassesOtherFilters(fp) ==
    IF version = "old" THEN fp.smd
    ELSE /\ \E i \in DOMAIN fp.pads : fp.pads[i].attr = "SMD"
         /\ ~fp.dnp
         /\ LET name == upper(fp.name)
            IN  /\ name \notin ignored_parts
                /\ ~Contains(sTESTPOINT, name) \/ Truthy(args.include_testpoints)

\* C9: with --ignore_top there is no 'Top' placement and the packages, parts and
\* placements are those of the board without its top-layer footprints; the same for
\* --ignore_bottom, 'Bottom' and the bottom layer; with neither option every footprint
\* that passes the other filters has exactly one placement, and no other has one.
\* (The comparison with the reduced board is made when the identification returns;
\* no later step assigns packages, parts or placements.)
C9_LayerExclusion ==
    cpc \notin {"off", "start"} =>
        /\ args.ignore_top => \A i \in DOMAIN placements :
                                  /\ placements[i].side # "Top"
                                  /\ board[placements[i].id].layer # "F_Cu"
        /\ args.ignore_bottom => \A i \in DOMAIN placements :
                                     /\ placements[i].side # "Bottom"
                                     /\ board[placements[i].id].layer # "B_Cu"
        /\ cpc = "identified" =>
              LET r == identity_used_packages_and_parts(
                           WithoutIgnored(board, args),
                           [args EXCEPT !.ignore_top = FALSE, !.ignore_bottom = FALSE])
              IN  /\ packages = r.packages
                  /\ parts = r.parts
                  /\ placements = r.placements
        /\ (~args.ignore_top /\ ~args.ignore_bottom) =>
              \A f \in DOMAIN board :
                  Cardinality({ i \in DOMAIN placements : placements[i].id = Reference(f) })
                      = (IF PassesOtherFilters(board[f]) THEN 1 ELSE 0)

C9_Witness ==
    /\ cpc = "identified"
    /\ args.ignore_top
    /\ ~args.ignore_bottom
    /\ Len(board) = 2
    /\ board[1].layer = "F_Cu" /\ PassesOtherFilters(board[1])
    /\ board[2].layer = "B_Cu" /\ PassesOtherFilters(board[2])
    /\ Len(placements) = 1
    /\ Cardinality(DOMAIN packages) = 1

\* the run makes backups
BackupsOn == ~args.read_only /\ ~Truthy(args.no_backup)

\* C10: kicad_tools: when backups are on, every write of packages.xml or parts.xml
\* directly follows a copy of that file as it was before the run; a file for which
\* nothing new was identified is neither copied nor written; with a true --no_backup
\* value nothing is ever copied.
C10_Backups ==
    version = "tools" =>
        /\ BackupsOn =>
              \A i \in DOMAIN fsLog :
                  (fsLog[i].op = "write" /\ fsLog[i].file # "board.xml") =>
                      /\ i > 1
                      /\ fsLog[i - 1].op = "copy"
                      /\ fsLog[i - 1].file = fsLog[i].file
                      /\ Untouched(fsLog[i - 1].content)
                      /\ ~Untouched(fsLog[i].content)
        /\ (cpc \in {"packages", "parts", "done"}
              /\ \A k \in DOMAIN packages : k \in DOMAIN packages_xml
                                            /\ packages_xml[k].origin = "file")
              => CallsOn("packages.xml") = {}
        /\ (cpc \in {"parts", "done"}
              /\ \A k \in DOMAIN parts : k \in DOMAIN parts_xml
                                         /\ parts_xml[k].origin = "file")
              => CallsOn("parts.xml") = {}
        /\ Truthy(args.no_backup) => \A i \in DOMAIN fsLog : fsLog[i].op # "copy"

C10_Witness ==
    /\ version = "tools"
    /\ cpc = "done"
    /\ BackupsOn
    /\ args.no_backup = ""
    /\ DOMAIN parts_xml # {}
    /\ CallsOn("packages.xml") = {}
    /\ \E i \in CallsOn("parts.xml") : fsLog[i].op = "copy"
    /\ \E i \in CallsOn("parts.xml") : fsLog[i].op = "write"

\* ------------------------------------------- claims, converter: pad tables
\* the package a footprint uses: its library name, replaced by the mapped name when
\* the mapping has one, in the case the run uses
UsedPackage(fp) ==
    LET n == upper(fp.name)
        m == IF n \in DOMAIN footprint_to_package_mapping
             THEN footprint_to_package_mapping[n] ELSE fp.name
    IN  IF args.use_mixedcase THEN m ELSE upper(m)

\* the footprints that were given a placement
Processed == { i \in DOMAIN board : \E j \in DOMAIN placements : placements[j].id = Reference(i) }

\* the processed footprints that use package k
UsersOf(k) == { i \in Processed : UsedPackage(board[i]) = k }

\* the first processed footprint that uses package k
FirstUser(k) == CHOOSE i \in UsersOf(k) : \A j \in UsersOf(k) : i <= j

\* a footprint as the pad loop sees it: turned back to orientation 0
UprightOf(fp) == IF fp.orientation # 0 THEN Rotated(fp) ELSE fp

\* the indexes of the pads of fp that are on a copper layer
CopperPads(fp) == { i \in DOMAIN fp.pads : fp.pads[i].copper }

\* the entry e holds the offset of pad i of fp from the position of fp
HoldsOffsetOf(e, fp, i) ==
    /\ e.x = to_millimeters(fp.pads[i].pos[1] - fp.pos[1])
    /\ e.y = to_millimeters(fp.pads[i].pos[2] - fp.pos[2])

\* C11 (as claimed): kicad_tools with --discard_duplicate_pads: the pad table of every
\* package has exactly one entry per distinct name of the copper pads of its footprint,
\* none under a renamed name, and each entry holds the geometry of the first copper
\* pad of that name.
C11_DiscardDuplicates ==
    (version = "tools" /\ cpc \notin {"off", "start"} /\ args.discard_duplicate_pads) =>
        \A k \in DOMAIN packages :
            LET fp == UprightOf(board[FirstUser(k)])
            IN  /\ DOMAIN packages[k] = { PadName(fp.pads[i], k) : i \in CopperPads(fp) }
                /\ \A name \in DOMAIN packages[k] :
                      LET same == { i \in CopperPads(fp) : PadName(fp.pads[i], k) = name }
                          first == CHOOSE i \in same : \A j \in same : i <= j
                      IN  HoldsOffsetOf(packages[k][name], fp, first)

\* C12 (as claimed): kicad_tools without --discard_duplicate_pads: the pad table of
\* every package has exactly one entry per copper pad of its footprint, and every
\* copper pad still has an entry with its geometry (none was overwritten), whatever
\* the pad names are.
C12_RenameDuplicates ==
    (version = "tools" /\ cpc \notin {"off", "start"} /\ ~args.discard_duplicate_pads) =>
        \A k \in DOMAIN packages :
            LET fp == UprightOf(board[FirstUser(k)])
            IN  /\ Cardinality(DOMAIN packages[k]) = Cardinality(CopperPads(fp))
                /\ \A i \in CopperPads(fp) :
                      \E name \in DOMAIN packages[k] : HoldsOffsetOf(packages[k][name], fp, i)

\* name is the name of pad i of fp in package k, or a name the pad loop made of it
NamedAfter(name, fp, i, k) ==
    LET pad_name == PadName(fp.pads[i], k)
    IN  \/ name = pad_name
        \/ /\ Len(name) > Len(pad_name) + 1
           /\ SubSeq(name, 1, Len(pad_name) + 1) = pad_name \o <<"_">>

\* C14: kicad_tools, when the identification returns: the packages are those the
\* processed footprints use; every entry of a package's pad table is a copper pad of
\* the first processed footprint that uses the package (as the pad loop sees it, at
\* orientation 0), with the pad's position minus the footprint's position as x/y; the
\* pad tables the footprints before any later footprint gave are the final ones; and
\* every processed footprint has exactly one placement and its reference in the part
\* of that placement.
C14_FirstFootprint ==
    (version = "tools" /\ cpc = "identified") =>
        /\ DOMAIN packages = { UsedPackage(board[i]) : i \in Processed }
        /\ \A k \in DOMAIN packages :
              LET fp == UprightOf(board[FirstUser(k)])
              IN  \A name \in DOMAIN packages[k] :
                      \E i \in CopperPads(fp) :
                          /\ NamedAfter(name, fp, i, k)
                          /\ HoldsOffsetOf(packages[k][name], fp, i)
        /\ \A n \in 1..(Len(board) - 1) :
              LET before == identity_used_packages_and_parts(SubSeq(board, 1, n), args).packages
              IN  \A k \in DOMAIN before : k \in DOMAIN packages /\ packages[k] = before[k]
        /\ \A i \in Processed :
              LET mine == { j \in DOMAIN placements : placements[j].id = Reference(i) }
              IN  /\ Cardinality(mine) = 1
                  /\ \A j \in mine :
                        Reference(i) \in Range(parts[placements[j].part_id].refs)

C14_Witness ==
    /\ version = "tools"
    /\ cpc = "identified"
    /\ Len(board) = 2
    /\ board[1].orientation = 90
    /\ board[2].orientation = 0
    /\ UsersOf(UsedPackage(board[1])) = {1, 2}
    /\ Cardinality(DOMAIN packages) = 1
    /\ \A k \in DOMAIN packages :
          /\ packages[k][<<"1">>].x = 1
          /\ packages[k][<<"2">>].x = 0 - 2
    /\ \E p \in DOMAIN parts : parts[p].refs = <<1, 2>>

\* ------------------------------------------------------ claims, feeder scan
\* the part detected for the slot of log entry e has a compatible feeder in the bank
\* as it was when the slot was scanned
CompatibleFound(e) ==
    /\ e.part # NoPart
    /\ find_feeder_in_bank_for_part(e.part, SubSeq(bank, 1, e.banksize)) # 0

\* C13 (as claimed): every ReferenceSlotAutoFeeder the scan has visited holds the
\* compatible bank feeder and is enabled if one was identified for the part of its
\* label, and is disabled if none was found.
C13_SlotFeeders ==
    \A n \in DOMAIN scanLog :
        LET e == scanLog[n]
            slot == feeders[e.feeder]
        IN  slot.kind = kSlotAuto =>
                IF CompatibleFound(e)
                THEN /\ slot.enabled
                     /\ slot.feeder = find_feeder_in_bank_for_part(e.part, SubSeq(bank, 1, e.banksize))
                ELSE ~slot.enabled

=============================================================================
